---- MODULE Spec2Model ----
(***************************************************************************)
(* Anomaly-scoring engine of ETL_AnomalyDetection_AI                       *)
(* (src/src/validation/ai_techniques.py): FuzzyLogicDetector,              *)
(* ExpertSystemDetector, TimeSeriesForecastingDetector,                    *)
(* GeneticAlgorithmDetector and EnsembleAIDetector.                        *)
(*                                                                         *)
(* Numbers.  Floating point values are modelled in fixed point: the        *)
(* integer v stands for v / SCALE, divisions round towards minus infinity. *)
(* The guard constant 1e-8 of the code is the smallest positive fixed      *)
(* point number, EPS.  A missing value (numpy's nan) is the value NaN; it  *)
(* propagates through arithmetic and every comparison with it is false,    *)
(* as in IEEE 754.                                                         *)
(***************************************************************************)
EXTENDS Integers, Sequences, FiniteSets, TLC

----------------------------------------------------------------------------
(* Bounds of the model *)

\* largest number of rows of an input matrix or frame
MaxRows == 2

\* largest number of rules registered on an expert scorer
MaxRules == 2

\* largest number of mutations (of a weight or of a threshold) in one run of
\* GeneticAlgorithmDetector.fit
MaxMutations == 1

\* fixed point unit: SCALE stands for 1.0
SCALE == 10 ^ 3

\* the code's 1e-8 guard
EPS == 1

\* numpy's nan
NaN == 0 - (10 ^ 8)

\* the values a cell of an input takes: missing, a low and a high value
Cells == {NaN, 0, 5}

\* the column counts of the inputs
ColCounts == {1, 2, 3}

----------------------------------------------------------------------------
(* Fixed point arithmetic with nan *)

IsNaN(x) == x = NaN

Abs(x) == IF x < 0 THEN 0 - x ELSE x

Min(a, b) == IF a < b THEN a ELSE b

\* a + b, a - b, a * b / SCALE, a / b of numpy floats
FAdd(a, b) == IF IsNaN(a) \/ IsNaN(b) THEN NaN ELSE a + b

FSub(a, b) == IF IsNaN(a) \/ IsNaN(b) THEN NaN ELSE a - b

FAbs(a) == IF IsNaN(a) THEN NaN ELSE Abs(a)

\* a / b for fixed point a, b (b # 0 wherever the code divides: every
\* divisor of the code carries the 1e-8 guard or is a count)
FDiv(a, b) == IF IsNaN(a) \/ IsNaN(b) THEN NaN ELSE (a * SCALE) \div b

\* np.minimum(a, b): nan if either is nan
FMin(a, b) == IF IsNaN(a) \/ IsNaN(b) THEN NaN ELSE Min(a, b)

\* a > b, a < b, a <= b, a >= b of floats: false when either is nan
FGt(a, b) == ~IsNaN(a) /\ ~IsNaN(b) /\ a > b

FLe(a, b) == ~IsNaN(a) /\ ~IsNaN(b) /\ a <= b

FGe(a, b) == ~IsNaN(a) /\ ~IsNaN(b) /\ a >= b

RECURSIVE SeqSum(_)
SeqSum(s) == IF s = <<>> THEN 0 ELSE Head(s) + SeqSum(Tail(s))

RECURSIVE SqrtBin(_, _, _)
SqrtBin(n, lo, hi) ==
    IF lo >= hi THEN lo
    ELSE LET mid == (lo + hi + 1) \div 2
         IN  IF mid * mid <= n THEN SqrtBin(n, mid, hi)
             ELSE SqrtBin(n, lo, mid - 1)

\* floor of the square root of n >= 0
Sqrt(n) == SqrtBin(n, 0, 40000)

\* the sequence f[1], ..., f[n], built element by element
RECURSIVE TupleTo(_, _)
TupleTo(f, n) == IF n = 0 THEN <<>> ELSE Append(TupleTo(f, n - 1), f[n])

HasNaN(s) == \E i \in 1..Len(s) : IsNaN(s[i])

DropNaN(s) == SelectSeq(s, LAMBDA x : ~IsNaN(x))

\* np.mean(s): nan for an empty s or one that holds a nan
Mean(s) ==
    IF s = <<>> \/ HasNaN(s) THEN NaN ELSE SeqSum(s) \div Len(s)

\* np.std(s), the population standard deviation
Std(s) ==
    IF s = <<>> \/ HasNaN(s) THEN NaN
    ELSE LET m == Mean(s)
             sq == [i \in 1..Len(s) |-> (s[i] - m) * (s[i] - m)]
         IN  Sqrt(SeqSum(sq) \div Len(s))

\* np.nanmean, np.nanstd: over the values that are not nan
NanMean(s) == Mean(DropNaN(s))

NanStd(s) == Std(DropNaN(s))

----------------------------------------------------------------------------
(* Inputs: numpy matrices and pandas frames *)

\* the rows of c cells
RowsOf(c) == [1..c -> Cells]

\* the value grids of c columns and 1..MaxRows rows
MatricesOf(c) == UNION {[1..n -> RowsOf(c)] : n \in 1..MaxRows}

Matrices == UNION {MatricesOf(c) : c \in ColCounts}

\* the grids of c columns and one row
Probes(c) == [1..1 -> RowsOf(c)]

\* X.shape[1]; the one matrix without rows among the inputs is
\* np.empty((0, 1))
NumCols(M) == IF M = <<>> THEN 1 ELSE Len(M[1])

\* column j of M as floats: X[:, j]
Column(M, j) ==
    TupleTo([i \in 1..Len(M) |->
               IF IsNaN(M[i][j]) THEN NaN ELSE M[i][j] * SCALE], Len(M))

\* the index pandas gives a frame of n rows by default: 0, ..., n-1
RangeIndex(n) == [i \in 1..n |-> i - 1]

\* An input is a numpy matrix or a pandas frame of the same values; a frame
\* has row index labels and the attributes dtypes and iterrows.
AsMatrix(M) == [kind |-> "matrix", rows |-> M, index |-> RangeIndex(Len(M))]

AsFrame(M, index) == [kind |-> "frame", rows |-> M, index |-> index]

\* X.values / np.asarray(X, dtype=float)
Values(inp) == inp.rows

----------------------------------------------------------------------------
(* State *)

VARIABLES
    X,          \* an input the caller holds and passes to predict
    train,      \* the input the caller holds and passes to fit
    fuzzy,      \* a FuzzyLogicDetector: fuzzy_sets, scaler_params
    timeseries, \* a TimeSeriesForecastingDetector: forecasts, residuals
    expert,     \* an ExpertSystemDetector: rules, weights, context_vars
    genetic,    \* a GeneticAlgorithmDetector: population_size, generations,
                \* best_individual, best_fitness
    ga,         \* the run of GeneticAlgorithmDetector.fit: its position, its
                \* locals, the labels it was given and the numpy arrays that
                \* hold weights
    ensemble,   \* an EnsembleAIDetector: built (it was constructed), weights;
                \* its sub-scorers are then fuzzy, expert, timeseries, genetic
    neural,     \* a NeuralSymbolicDetector: TF_AVAILABLE, has_model (it has the
                \* attribute neural_model)
    detector,   \* an AnomalyDetector: method, ml_detector, ai_detector
    orchestrator,
                \* a TestOrchestrator: halt_on_critical of its config, hooks,
                \* stage_results, and the stage functions its last run called
    out         \* what the last call returned: op, ok (false: it raised),
                \* scores, and args, the values of the input it was given

vars == <<X, train, fuzzy, timeseries, expert, genetic, ga, ensemble, neural,
          detector, orchestrator, out>>

NoCall == [op |-> "none", ok |-> TRUE, scores |-> <<>>, args |-> <<>>]

Returned(op, scores) ==
    [op |-> op, ok |-> TRUE, scores |-> scores, args |-> <<>>]

Raised(op) == [op |-> op, ok |-> FALSE, scores |-> <<>>, args |-> <<>>]

\* the result of a call together with the argument values of the call
Called(result, args) == [result EXCEPT !.args = args]

----------------------------------------------------------------------------
(* FuzzyLogicDetector *)

\* the 'normal' set of the default fuzzy_sets, triangular (-1, 0, 1), and a
\* wider one a caller may configure; predict reads the membership in
\* 'normal' alone (the memberships in 'low' and 'high' are computed and
\* dropped)
DefaultNormal == <<0 - SCALE, 0, SCALE>>

WideNormal == <<0 - 4 * SCALE, 0, 4 * SCALE>>

FuzzySetChoices == {DefaultNormal, WideNormal}

FuzzyNew(sets) == [fuzzy_sets |-> sets, scaler_params |-> <<>>]

\* _normalize(data)
Normalize(data) ==
    LET mean == NanMean(data)
        std == NanStd(data)
    IN  IF std = 0 THEN [i \in 1..Len(data) |-> 0]
        ELSE TupleTo([i \in 1..Len(data) |->
                        IF IsNaN(data[i]) \/ IsNaN(mean) THEN NaN
                        ELSE ((data[i] - mean) * 3 * SCALE) \div (std + EPS)],
                     Len(data))

\* _triangular_membership(x, a, b, c)
TriangularMembership(x, a, b, c) ==
    IF x <= a \/ x >= c THEN 0
    ELSE IF a < x /\ x <= b THEN ((x - a) * SCALE) \div (b - a + EPS)
    ELSE ((c - x) * SCALE) \div (c - b + EPS)

\* what one cell adds to its row's score (the body of predict's inner loop)
FuzzyContribution(self, val, ncols) ==
    IF IsNaN(val) THEN SCALE \div 2
    ELSE LET p == self.fuzzy_sets
             normal_membership == TriangularMembership(val, p[1], p[2], p[3])
         IN  (SCALE - normal_membership) \div ncols

\* a faulty predict: a column that fit stored parameters for is normalised
\* with the stored mean and std
FuzzyPredictStored(self, M) ==
    LET ncols == NumCols(M)
        Stored(j) ==
            LET p == self.scaler_params[j]
                data == Column(M, j)
            IN  TupleTo([i \in 1..Len(data) |->
                           IF IsNaN(data[i]) \/ IsNaN(p.mean) \/ IsNaN(p.std)
                           THEN NaN
                           ELSE ((data[i] - p.mean) * 3 * SCALE) \div (p.std + EPS)],
                        Len(data))
        normalized == TupleTo([j \in 1..ncols |->
                                 IF j <= Len(self.scaler_params) THEN Stored(j)
                                 ELSE Normalize(Column(M, j))], ncols)
    IN  TupleTo([r \in 1..Len(M) |->
                   SeqSum([j \in 1..ncols |->
                             FuzzyContribution(self, normalized[j][r], ncols)])],
                Len(M))

\* predict(X): anomaly_scores
FuzzyPredict(self, M) ==
    LET ncols == NumCols(M)
        normalized == TupleTo([j \in 1..ncols |-> Normalize(Column(M, j))], ncols)
    IN  TupleTo([r \in 1..Len(M) |->
                   SeqSum([j \in 1..ncols |->
                             FuzzyContribution(self, normalized[j][r], ncols)])],
                Len(M))

\* fit(X): scaler_params[i] is set for every column i of X, the other
\* entries stay
FuzzyFitted(self, M) ==
    LET old == self.scaler_params
        n == IF Len(old) > NumCols(M) THEN Len(old) ELSE NumCols(M)
    IN  [self EXCEPT !.scaler_params =
            [j \in 1..n |->
               IF j <= NumCols(M)
               THEN [mean |-> Mean(DropNaN(Column(M, j))),
                     std |-> Std(DropNaN(Column(M, j)))]
               ELSE old[j]]]

FuzzyFit ==
    /\ \E inp \in {X, train} :
          /\ fuzzy' = FuzzyFitted(fuzzy, Values(inp))
          /\ out' = Called(Returned("fuzzy.fit", <<>>), <<Values(inp)>>)
    /\ UNCHANGED <<X, train, timeseries, expert, genetic, ga, ensemble, neural, detector, orchestrator>>

FuzzyPredictCall ==
    /\ out' = Returned("fuzzy.predict", FuzzyPredict(fuzzy, Values(X)))
    /\ UNCHANGED <<X, train, fuzzy, timeseries, expert, genetic, ga, ensemble, neural, detector, orchestrator>>

\* the corners a, b, c and the points x that _triangular_membership is
\* called with
MembershipCorners == {0 - 4 * SCALE, 0 - SCALE, 0, SCALE, 4 * SCALE}

MembershipPoints == {k * (SCALE \div 2) : k \in (0 - 9)..9}

\* _triangular_membership(x, a, b, c) with a < b < c
TriangularMembershipCall ==
    /\ \E x \in MembershipPoints, a, b, c \in MembershipCorners :
          /\ a < b /\ b < c
          /\ out' = Called(Returned("fuzzy._triangular_membership",
                                    <<TriangularMembership(x, a, b, c)>>),
                           <<x, a, b, c>>)
    /\ UNCHANGED <<X, train, fuzzy, timeseries, expert, genetic, ga, ensemble,
                   neural, detector, orchestrator>>

----------------------------------------------------------------------------
(* TimeSeriesForecastingDetector *)

\* the default smoothing factor alpha = 0.3
ALPHA == 300

\* forecasts and residuals are dicts keyed by column index 0, 1, ...; fit
\* sets the keys 0..ncols-1, so the keys are always a range and a sequence
\* holds them
TimeSeriesNew == [forecasts |-> <<>>, residuals |-> <<>>]

\* the forward fill loop of fit, on one column: left to right, a missing
\* value takes the value before it when that one is not missing
RECURSIVE ForwardFill(_, _)
ForwardFill(col, i) ==
    IF i > Len(col) THEN col
    ELSE IF IsNaN(col[i]) /\ ~IsNaN(col[i - 1])
         THEN ForwardFill([col EXCEPT ![i] = col[i - 1]], i + 1)
         ELSE ForwardFill(col, i + 1)

\* a faulty loop: forecast[0] is left at the 0 of np.zeros
RECURSIVE SmoothFromZero(_, _)
SmoothFromZero(series, t) ==
    IF t = 1 THEN <<0>>
    ELSE LET prev == SmoothFromZero(series, t - 1)
         IN  Append(prev,
                    IF IsNaN(series[t]) THEN prev[t - 1]
                    ELSE (ALPHA * series[t] + (SCALE - ALPHA) * prev[t - 1])
                             \div SCALE)

\* the loop of _exponential_smoothing: forecast[1..t]
RECURSIVE SmoothTo(_, _)
SmoothTo(series, t) ==
    IF t = 1 THEN <<series[1]>>
    ELSE LET prev == SmoothTo(series, t - 1)
         IN  Append(prev,
                    IF IsNaN(series[t]) THEN prev[t - 1]
                    ELSE IF IsNaN(prev[t - 1]) THEN NaN
                    ELSE (ALPHA * series[t] + (SCALE - ALPHA) * prev[t - 1])
                             \div SCALE)

\* _exponential_smoothing(series): forecast and sigma
ExponentialSmoothing(series) ==
    IF Len(series) < 2
    THEN [forecast |-> series, sigma |-> FAdd(Std(series), EPS)]
    ELSE LET forecast == SmoothTo(series, Len(series))
             residuals == DropNaN(TupleTo([t \in 1..Len(series) |->
                                             FSub(series[t], forecast[t])],
                                          Len(series)))
         IN  [forecast |-> forecast,
              sigma |-> IF Len(residuals) > 0 THEN Std(residuals) ELSE SCALE]

\* the value grid whose columns are the forward filled columns of M
FilledGrid(M) ==
    LET filled == TupleTo([j \in 1..NumCols(M) |-> ForwardFill(Column(M, j), 2)],
                          NumCols(M))
    IN  TupleTo([i \in 1..Len(M) |->
                   TupleTo([j \in 1..NumCols(M) |->
                              IF IsNaN(filled[j][i]) THEN NaN
                              ELSE filled[j][i] \div SCALE], NumCols(M))],
                Len(M))

\* fit(X): the entries of the columns of X are set, the others stay
TimeSeriesFitted(self, M) ==
    LET ncols == NumCols(M)
        es == TupleTo([j \in 1..ncols |->
                         ExponentialSmoothing(ForwardFill(Column(M, j), 2))],
                      ncols)
        n == IF Len(self.forecasts) > ncols THEN Len(self.forecasts) ELSE ncols
    IN  [forecasts |-> TupleTo([j \in 1..n |->
                          IF j <= ncols THEN es[j].forecast
                          ELSE self.forecasts[j]], n),
         residuals |-> TupleTo([j \in 1..n |->
                          IF j <= ncols THEN es[j].sigma
                          ELSE self.residuals[j]], n)]

\* whether numpy can subtract a stored forecast of m values from a column of
\* n values and add the result to the n scores: equal lengths, or a forecast
\* of one value, which broadcasts
Broadcasts(n, m) == m = n \/ m = 1

\* the forecast predict uses for column j: forecasts.get(col_idx, col_data)
ForecastFor(self, M, j) ==
    IF j <= Len(self.forecasts) THEN self.forecasts[j] ELSE Column(M, j)

SigmaFor(self, j) ==
    IF j <= Len(self.residuals) THEN self.residuals[j] ELSE SCALE

\* what column j adds to the score of row r
TimeSeriesContribution(self, M, j, r) ==
    LET forecast == ForecastFor(self, M, j)
        f == IF Len(forecast) = 1 THEN forecast[1] ELSE forecast[r]
        errors == FAbs(FSub(Column(M, j)[r], f))
        z_scores == FDiv(errors, FAdd(SigmaFor(self, j), EPS))
        capped == FMin(IF IsNaN(z_scores) THEN NaN ELSE z_scores \div 5, SCALE)
    IN  IF IsNaN(capped) THEN NaN ELSE capped \div NumCols(M)

RECURSIVE FSum(_)
FSum(s) == IF s = <<>> THEN 0 ELSE FAdd(Head(s), FSum(Tail(s)))

\* predict(X): the scores, or a ValueError when a stored forecast does not
\* broadcast against the input
TimeSeriesPredict(self, M) ==
    IF \E j \in 1..NumCols(M) :
           ~Broadcasts(Len(M), Len(ForecastFor(self, M, j)))
    THEN Raised("timeseries.predict")
    ELSE Returned("timeseries.predict",
                  TupleTo([r \in 1..Len(M) |->
                             FSum(TupleTo([j \in 1..NumCols(M) |->
                                     TimeSeriesContribution(self, M, j, r)],
                                  NumCols(M)))],
                          Len(M)))

\* fit(train).  np.asarray does not copy a float matrix, so the forward fill
\* writes into the caller's matrix.
TimeSeriesFit ==
    /\ timeseries' = TimeSeriesFitted(timeseries, Values(train))
    /\ train' = [train EXCEPT !.rows = FilledGrid(Values(train))]
    /\ out' = Returned("timeseries.fit", <<>>)
    /\ UNCHANGED <<X, fuzzy, expert, genetic, ga, ensemble, neural, detector, orchestrator>>

\* a faulty predict: forecasts.setdefault and residuals.setdefault in place
\* of get, which store the column and 1.0 for a column that has no entry
TimeSeriesPredictStoring ==
    /\ \E inp \in {X, train} :
          /\ out' = Called(TimeSeriesPredict(timeseries, Values(inp)),
                           <<Values(inp)>>)
          /\ timeseries' =
                IF timeseries.forecasts # <<>> THEN timeseries
                ELSE [forecasts |-> TupleTo([j \in 1..NumCols(Values(inp)) |->
                                       Column(Values(inp), j)],
                                    NumCols(Values(inp))),
                      residuals |-> TupleTo([j \in 1..NumCols(Values(inp)) |->
                                       SCALE], NumCols(Values(inp)))]
    /\ UNCHANGED <<X, train, fuzzy, expert, genetic, ga, ensemble, neural,
                   detector, orchestrator>>

\* predict on an input of the caller: another one, or the matrix fit was
\* given
TimeSeriesPredictCall ==
    /\ \E inp \in {X, train} :
          out' = Called(TimeSeriesPredict(timeseries, Values(inp)), <<Values(inp)>>)
    /\ UNCHANGED <<X, train, fuzzy, timeseries, expert, genetic, ga, ensemble, neural, detector, orchestrator>>

----------------------------------------------------------------------------
(* ExpertSystemDetector *)

ExpertNew == [rules |-> <<>>, weights |-> <<>>, context_vars |-> <<>>]

\* s in ascending order
RECURSIVE Insert(_, _)
Insert(s, x) ==
    IF s = <<>> THEN <<x>>
    ELSE IF x <= Head(s) THEN <<x>> \o s
    ELSE <<Head(s)>> \o Insert(Tail(s), x)

RECURSIVE Sorted(_)
Sorted(s) == IF s = <<>> THEN <<>> ELSE Insert(Sorted(Tail(s)), Head(s))

\* the quantile qn/qd of s by linear interpolation (pandas' quantile and
\* numpy's percentile): nan for an empty s or one that holds a nan
Quantile(s, qn, qd) ==
    IF s = <<>> \/ HasNaN(s) THEN NaN
    ELSE LET a == Sorted(s)
             pos == (Len(s) - 1) * qn
             lo == pos \div qd + 1
             hi == IF lo < Len(s) THEN lo + 1 ELSE lo
         IN  a[lo] + ((a[hi] - a[lo]) * (pos % qd)) \div qd

\* pandas' Series.std(): the sample standard deviation, nan below two values
SampleStd(s) ==
    IF Len(s) < 2 THEN NaN
    ELSE LET m == Mean(s)
             sq == TupleTo([i \in 1..Len(s) |-> (s[i] - m) * (s[i] - m)], Len(s))
         IN  Sqrt(SeqSum(sq) \div (Len(s) - 1))

\* the statistics fit stores for one column
ColumnContext(col) ==
    LET col_data == DropNaN(col)
    IN  [mean |-> Mean(col_data),
         std |-> SampleStd(col_data),
         median |-> Quantile(col_data, 1, 2),
         q1 |-> Quantile(col_data, 1, 4),
         q3 |-> Quantile(col_data, 3, 4),
         min |-> Quantile(col_data, 0, 1),
         max |-> Quantile(col_data, 1, 1)]

\* fit(X): context_vars[col] is set for every column of X, the others stay
ExpertFitted(self, M) ==
    LET old == self.context_vars
        n == IF Len(old) > NumCols(M) THEN Len(old) ELSE NumCols(M)
    IN  [self EXCEPT !.context_vars =
            TupleTo([j \in 1..n |->
                       IF j <= NumCols(M) THEN ColumnContext(Column(M, j))
                       ELSE old[j]], n)]

\* The predicates callers register, by what they do with (row, context):
\*   always, never   return True, False
\*   raises          raises an exception
\*   high            row[first column] > 2
\*   above_mean      row[first column] > context['context'][first column]['mean'],
\*                   a KeyError before fit
\* An evaluation ends Matched, NotMatched or Raised.
Evaluate(condition, row, context_vars) ==
    CASE condition = "always" -> "Matched"
      [] condition = "never" -> "NotMatched"
      [] condition = "raises" -> "Raised"
      [] condition = "high" ->
            IF ~IsNaN(row[1]) /\ row[1] > 2 THEN "Matched" ELSE "NotMatched"
      [] condition = "above_mean" ->
            IF context_vars = <<>> THEN "Raised"
            ELSE IF ~IsNaN(row[1])
                    /\ FGt(row[1] * SCALE, context_vars[1].mean)
                 THEN "Matched" ELSE "NotMatched"

\* the rules a caller registers: name, condition, confidence
RuleChoices ==
    { [name |-> "always", condition |-> "always", confidence |-> SCALE],
      [name |-> "high", condition |-> "high", confidence |-> (8 * SCALE) \div 10],
      [name |-> "high", condition |-> "above_mean", confidence |-> (3 * SCALE) \div 10],
      [name |-> "broken", condition |-> "raises", confidence |-> (9 * SCALE) \div 10] }

\* add_rule(name, condition_func, confidence)
ExpertWithRule(self, rule) ==
    [self EXCEPT
        !.rules = Append(@, rule),
        !.weights =
            IF \E i \in 1..Len(@) : @[i].name = rule.name
            THEN [i \in 1..Len(@) |->
                    IF @[i].name = rule.name
                    THEN [name |-> rule.name, confidence |-> rule.confidence]
                    ELSE @[i]]
            ELSE Append(@, [name |-> rule.name, confidence |-> rule.confidence])]

\* rule_scores of one row: the confidence of every rule that matched and 0.5
\* for every rule that raised, in rule order
RECURSIVE RuleScores(_, _, _)
RuleScores(rules, row, context_vars) ==
    IF rules = <<>> THEN <<>>
    ELSE LET result == Evaluate(Head(rules).condition, row, context_vars)
             rest == RuleScores(Tail(rules), row, context_vars)
         IN  IF result = "Matched" THEN <<Head(rules).confidence>> \o rest
             ELSE IF result = "Raised" THEN <<SCALE \div 2>> \o rest
             ELSE rest

\* the score predict computes for one row
RowScore(self, row) ==
    LET rule_scores == RuleScores(self.rules, row, self.context_vars)
    IN  IF rule_scores # <<>> THEN SeqSum(rule_scores) \div Len(rule_scores)
        ELSE 0

\* scores[idx] of a numpy array of n entries: the position (from 1) index
\* label idx selects, 0 when idx is out of range (an IndexError)
Position(idx, n) ==
    IF 0 <= idx /\ idx < n THEN idx + 1
    ELSE IF 0 - n <= idx /\ idx < 0 THEN n + idx + 1
    ELSE 0

\* the loop of predict over the first k rows: scores[idx] = score of the row
\* labelled idx
RECURSIVE ScoresAfter(_, _, _)
ScoresAfter(self, inp, k) ==
    IF k = 0 THEN [i \in 1..Len(inp.rows) |-> 0]
    ELSE [ScoresAfter(self, inp, k - 1) EXCEPT
             ![Position(inp.index[k], Len(inp.rows))] = RowScore(self, inp.rows[k])]

\* predict(X): a matrix has no iterrows (AttributeError); a row whose label
\* is no position of scores ends the loop with an IndexError
ExpertPredict(self, inp) ==
    IF inp.kind # "frame" THEN Raised("expert.predict")
    ELSE IF \E k \in 1..Len(inp.rows) :
                Position(inp.index[k], Len(inp.rows)) = 0
    THEN Raised("expert.predict")
    ELSE Returned("expert.predict",
                  TupleTo(ScoresAfter(self, inp, Len(inp.rows)), Len(inp.rows)))

\* expert.add_rule(rule.name, rule.condition, rule.confidence) for a rule of
\* choices
AddRule(choices) ==
    \E rule \in choices :
        /\ Len(expert.rules) < MaxRules
        /\ expert' = ExpertWithRule(expert, rule)
        /\ out' = Returned("expert.add_rule", <<>>)
        /\ UNCHANGED <<X, train, fuzzy, timeseries, genetic, ga, ensemble, neural, detector, orchestrator>>

ExpertAddRule == AddRule(RuleChoices)

ExpertFit ==
    /\ train.kind = "frame"
    /\ expert' = ExpertFitted(expert, Values(train))
    /\ out' = Returned("expert.fit", <<>>)
    /\ UNCHANGED <<X, train, fuzzy, timeseries, genetic, ga, ensemble, neural, detector, orchestrator>>

ExpertPredictCall ==
    /\ out' = ExpertPredict(expert, X)
    /\ UNCHANGED <<X, train, fuzzy, timeseries, expert, genetic, ga, ensemble, neural, detector, orchestrator>>

----------------------------------------------------------------------------
(* GeneticAlgorithmDetector *)

\* An individual is a dict {weights, threshold}.  Its weights are a numpy
\* array, which several dicts may hold: dict.copy() copies the dict and not
\* the array.  ga.arrays[r] is the array with reference r >= 1; an
\* individual holds the reference.  Reference 0 stands for None.
None == [weights |-> 0, threshold |-> 0]

\* -np.inf
NegInf == 0 - (10 ^ 7)

GeneticNew(population_size, generations) ==
    [population_size |-> population_size, generations |-> generations,
     best_individual |-> None, best_fitness |-> NegInf]

\* seen is history: the fitness, weights and threshold of the fittest
\* individual this detector evaluated so far (in any fit), as they were when
\* it was evaluated
GaIdle ==
    [pc |-> "idle", gen |-> 0, labels |-> <<>>, arrays |-> <<>>,
     population |-> <<>>, fitnesses |-> <<>>, survivors |-> <<>>,
     new_population |-> <<>>, mutations |-> 0,
     seen |-> [fitness |-> NegInf, weights |-> <<>>, threshold |-> 0]]

\* what np.random.dirichlet(np.ones(n)) draws: non-negative, summing to 1
DirichletDraws(n) ==
    IF n = 1 THEN {<<SCALE>>}
    ELSE IF n = 2 THEN {<<SCALE \div 2, SCALE \div 2>>,
                        <<SCALE \div 5, (4 * SCALE) \div 5>>}
    ELSE {[j \in 1..n |-> IF j = 1 THEN SCALE - (n - 1) * (SCALE \div 5)
                          ELSE SCALE \div 5]}

\* what np.random.uniform(0.3, 0.7) draws
ThresholdDraws == {(3 * SCALE) \div 10, (65 * SCALE) \div 100}

\* what _create_individual(n) draws: a weight vector and a threshold
IndividualDraws(n) ==
    IF n = 2
    THEN {<<<<SCALE \div 2, SCALE \div 2>>, (3 * SCALE) \div 10>>,
          <<<<SCALE \div 5, (4 * SCALE) \div 5>>, (65 * SCALE) \div 100>>}
    ELSE DirichletDraws(n) \X ThresholdDraws

\* what np.random.random() draws for a mutated weight
WeightDraws == {(9 * SCALE) \div 10}

\* what np.random.normal(0, 0.05) draws
NoiseDraws == {0 - SCALE \div 20, (3 * SCALE) \div 10}

\* (X - np.mean(X, axis=0)) / (np.std(X, axis=0) + 1e-8), by column
Standardized(M) ==
    TupleTo([j \in 1..NumCols(M) |->
               LET col == Column(M, j)
                   mean == Mean(col)
                   std == Std(col)
               IN  TupleTo([i \in 1..Len(M) |->
                              FDiv(FSub(col[i], mean), FAdd(std, EPS))], Len(M))],
            NumCols(M))

\* np.dot(X_normalized, weights): one score per row
Projection(M, weights) ==
    LET Xn == Standardized(M)
    IN  TupleTo([i \in 1..Len(M) |->
                   FSum(TupleTo([j \in 1..NumCols(M) |->
                           IF IsNaN(Xn[j][i]) \/ IsNaN(weights[j]) THEN NaN
                           ELSE (Xn[j][i] * weights[j]) \div SCALE],
                        NumCols(M)))],
                Len(M))

\* _fitness(individual, X, anomaly_labels); labels = <<>> stands for None.
\* np.mean(outliers) of a matrix without rows is nan, and so is the fitness
Fitness(weights, threshold, M, labels) ==
    LET scores == Projection(M, weights)
        n == Len(M)
    IN  IF labels = <<>>
        THEN LET outliers == Cardinality({i \in 1..n :
                                 FGt(FAbs(scores[i]), threshold)})
                 outlier_ratio == IF n = 0 THEN NaN
                                  ELSE (outliers * SCALE) \div n
             IN  IF IsNaN(outlier_ratio) THEN NaN
                 ELSE 0 - Abs(outlier_ratio - SCALE \div 20)
        ELSE LET pred == [i \in 1..n |-> FGt(scores[i], threshold)]
                 tp == Cardinality({i \in 1..n : pred[i] /\ labels[i]})
                 fp == Cardinality({i \in 1..n : pred[i] /\ ~labels[i]})
                 fn == Cardinality({i \in 1..n : ~pred[i] /\ labels[i]})
                 precision == (tp * SCALE * SCALE) \div ((tp + fp) * SCALE + EPS)
                 recall == (tp * SCALE * SCALE) \div ((tp + fn) * SCALE + EPS)
             IN  (2 * precision * recall) \div (precision + recall + EPS)

\* weights / np.sum(weights)
Normalized(weights) ==
    LET total == SeqSum(weights)
    IN  TupleTo([j \in 1..Len(weights) |->
                   IF total = 0 THEN NaN ELSE (weights[j] * SCALE) \div total],
                Len(weights))

\* np.clip(x, lo, hi)
Clip(x, lo, hi) == IF x < lo THEN lo ELSE IF x > hi THEN hi ELSE x

\* np.argmax(fitnesses): the first index of the largest value
ArgMax(f) ==
    CHOOSE i \in 1..Len(f) :
        /\ \A k \in 1..Len(f) : f[k] <= f[i]
        /\ \A k \in 1..(i - 1) : f[k] < f[i]

\* the tournament of one slot: idx1 if it is strictly fitter, else idx2
Winner(fitnesses, idx1, idx2) ==
    IF fitnesses[idx1] > fitnesses[idx2] THEN idx1 ELSE idx2

\* the values of s other than 0, each once, in the order of s
RECURSIVE Distinct(_)
Distinct(s) ==
    IF s = <<>> THEN <<>>
    ELSE LET d == Distinct(SubSeq(s, 1, Len(s) - 1))
             x == s[Len(s)]
         IN  IF x = 0 \/ (\E k \in 1..Len(d) : d[k] = x) THEN d
             ELSE Append(d, x)

RefsOf(individuals) ==
    TupleTo([i \in 1..Len(individuals) |-> individuals[i].weights],
            Len(individuals))

\* Array references are names only: after each step the arrays no dict
\* holds are dropped (garbage) and the others are numbered in the order
\* best_individual, population, survivors, new_population.
Renumbered(best, g) ==
    LET order == Distinct(<<best.weights>> \o RefsOf(g.population)
                            \o RefsOf(g.survivors) \o RefsOf(g.new_population))
        R(r) == IF r = 0 THEN 0 ELSE CHOOSE k \in 1..Len(order) : order[k] = r
        Ren(inds) == TupleTo([i \in 1..Len(inds) |->
                                [inds[i] EXCEPT !.weights = R(@)]], Len(inds))
    IN  [best |-> [best EXCEPT !.weights = R(@)],
         g |-> [g EXCEPT !.arrays = TupleTo([k \in 1..Len(order) |->
                                                g.arrays[order[k]]], Len(order)),
                         !.population = Ren(@),
                         !.survivors = Ren(@),
                         !.new_population = Ren(@)]]

\* the weights an individual holds now
WeightsOf(g, individual) == g.arrays[individual.weights]

\* _create_individual for each slot of the population: draws[i] is the
\* pair <<weights, threshold>> drawn for slot i; every individual gets an
\* array of its own
Created(arrays, draws) ==
    [arrays |-> arrays \o TupleTo([i \in 1..Len(draws) |-> draws[i][1]], Len(draws)),
     population |-> TupleTo([i \in 1..Len(draws) |->
                               [weights |-> Len(arrays) + i,
                                threshold |-> draws[i][2]]], Len(draws))]

\* _crossover(parent1, parent2): from_first[j] is whether the j-th draw of
\* np.random.random() was below 0.5; the child gets a new array
Crossover(g, parent1, parent2, from_first) ==
    LET w1 == WeightsOf(g, parent1)
        w2 == WeightsOf(g, parent2)
        mixed == TupleTo([j \in 1..Len(w1) |->
                            IF from_first[j] THEN w1[j] ELSE w2[j]], Len(w1))
    IN  [arrays |-> Append(g.arrays, Normalized(mixed)),
         child |-> [weights |-> Len(g.arrays) + 1,
                    threshold |-> (parent1.threshold + parent2.threshold) \div 2]]

\* the weight vectors of the parents _crossover is called with:
\* non-negative, summing to 1
CrossoverParents ==
    { <<SCALE, 0>>, <<0, SCALE>>, <<SCALE \div 2, SCALE \div 2>>,
      <<SCALE \div 5, (4 * SCALE) \div 5>> }

\* _crossover(parent1, parent2) on two parents of the caller: ga holds the
\* arrays after the call and the individuals parent1, parent2 and child
CrossoverCall ==
    /\ \E w1, w2 \in CrossoverParents, t1, t2 \in ThresholdDraws,
          from_first \in [1..2 -> BOOLEAN] :
          LET g == [GaIdle EXCEPT !.arrays = <<w1, w2>>]
              parent1 == [weights |-> 1, threshold |-> t1]
              parent2 == [weights |-> 2, threshold |-> t2]
              c == Crossover(g, parent1, parent2, from_first)
          IN  /\ ga' = [GaIdle EXCEPT
                           !.arrays = c.arrays,
                           !.population = <<parent1, parent2, c.child>>]
              /\ out' = Called(Returned("genetic._crossover",
                                        c.arrays[c.child.weights]),
                               <<w1, w2>>)
    /\ UNCHANGED <<X, train, fuzzy, timeseries, expert, genetic, ensemble,
                   neural, detector, orchestrator>>

\* individual.copy(): a new dict that holds the same array
CopyOf(individual) == individual

\* _mutate(individual): m.weight is <<>> (the draw was not below
\* mutation_rate) or <<idx, value>>; m.noise likewise <<>> or <<noise>>.
\* The weight is written into the array the individual holds, and the
\* individual then takes a new, normalised array.
Mutate(arrays, individual, m) ==
    LET r == individual.weights
        written == IF m.weight = <<>> THEN arrays
                   ELSE [arrays EXCEPT ![r][m.weight[1]] = m.weight[2]]
        arrays2 == IF m.weight = <<>> THEN arrays
                   ELSE Append(written, Normalized(written[r]))
    IN  [arrays |-> arrays2,
         individual |->
            [weights |-> IF m.weight = <<>> THEN r ELSE Len(arrays2),
             threshold |->
                IF m.noise = <<>> THEN individual.threshold
                ELSE Clip(individual.threshold + m.noise[1],
                          SCALE \div 10, (9 * SCALE) \div 10)]]

\* the outcomes of the draws of one _mutate call on n weights
Mutations(n) ==
    [weight : {<<>>} \cup {<<j, v>> : j \in 1..n, v \in WeightDraws},
     noise : {<<>>} \cup {<<d>> : d \in NoiseDraws}]

MutationCount(m) ==
    (IF m.weight = <<>> THEN 0 ELSE 1) + (IF m.noise = <<>> THEN 0 ELSE 1)

\* predict(X)
GeneticPredict(self, arrays, M) ==
    IF self.best_individual = None
    THEN Returned("genetic.predict", [i \in 1..Len(M) |-> 0])
    ELSE LET proj == Projection(M, arrays[self.best_individual.weights])
             scores == TupleTo([i \in 1..Len(M) |-> FAbs(proj[i])], Len(M))
             p95 == Quantile(scores, 95, 100)
         IN  Returned("genetic.predict",
                      TupleTo([i \in 1..Len(M) |->
                                 FMin(FDiv(scores[i], FAdd(p95, EPS)), SCALE)],
                              Len(M)))

\* the label vectors fit is given for a matrix of n rows: None, or the last
\* row a known anomaly
LabelChoices(n) == {<<>>, [i \in 1..n |-> i = n]}

\* fit(X, anomaly_labels), up to the loop: the population is created;
\* best_individual and best_fitness are as the last fit left them
GAFitStart ==
    /\ ga.pc = "idle"
    /\ genetic.generations >= 1
    /\ LET M == Values(train)
           n == genetic.population_size
           best == genetic.best_individual
           kept == IF best = None THEN <<>> ELSE <<ga.arrays[best.weights]>>
       IN  \E draws \in [1..n -> IndividualDraws(NumCols(M))],
              labels \in LabelChoices(Len(M)) :
               LET c == Created(kept, draws)
               IN  /\ ga' = [GaIdle EXCEPT !.pc = "evaluate", !.labels = labels,
                                           !.arrays = c.arrays,
                                           !.population = c.population,
                                           !.seen = ga.seen]
                   /\ genetic' = [genetic EXCEPT !.best_individual =
                                     IF best = None THEN None
                                     ELSE [best EXCEPT !.weights = 1]]
    /\ out' = NoCall
    /\ UNCHANGED <<X, train, fuzzy, timeseries, expert, ensemble, neural, detector, orchestrator>>

\* the loop body, "Evaluate fitness" and "Track best"
GAEvaluate ==
    /\ ga.pc = "evaluate"
    /\ LET M == Values(train)
           pop == ga.population
           f == TupleTo([i \in 1..Len(pop) |->
                           Fitness(WeightsOf(ga, pop[i]), pop[i].threshold,
                                   M, ga.labels)], Len(pop))
           best_idx == ArgMax(f)
       IN  /\ genetic' =
                 IF f[best_idx] > genetic.best_fitness
                 THEN [genetic EXCEPT !.best_fitness = f[best_idx],
                                      !.best_individual = CopyOf(pop[best_idx])]
                 ELSE genetic
           /\ ga' = [ga EXCEPT
                        !.fitnesses = f,
                        !.pc = "select",
                        !.seen = IF f[best_idx] > @.fitness
                                 THEN [fitness |-> f[best_idx],
                                       weights |-> WeightsOf(ga, pop[best_idx]),
                                       threshold |-> pop[best_idx].threshold]
                                 ELSE @]
    /\ UNCHANGED <<X, train, fuzzy, timeseries, expert, out, ensemble, neural, detector, orchestrator>>

\* the loop body, "Selection: tournament": every slot draws two distinct
\* indices and keeps a copy of the winner
GASelect ==
    /\ ga.pc = "select"
    /\ LET pop == ga.population
           n == Len(pop)
           winners == {Winner(ga.fitnesses, i, j) :
                          <<i, j>> \in {p \in (1..n) \X (1..n) : p[1] # p[2]}}
       IN  \E picks \in [1..genetic.population_size -> winners] :
               ga' = [ga EXCEPT
                        !.survivors = TupleTo([k \in 1..Len(picks) |->
                                                 CopyOf(pop[picks[k]])], Len(picks)),
                        !.new_population = <<>>,
                        !.pc = "breed"]
    /\ UNCHANGED <<X, train, fuzzy, timeseries, expert, genetic, out, ensemble, neural, detector, orchestrator>>

\* a faulty end of the loop: population = new_population, not cut to
\* population_size
BredUncut(g, arrays, child1, child2, used) ==
    LET grown == g.new_population \o <<child1, child2>>
        last == Len(grown) >= Len(g.survivors)
        gen == IF last THEN g.gen + 1 ELSE g.gen
    IN  [g EXCEPT
            !.arrays = arrays,
            !.mutations = @ + used,
            !.new_population = IF last THEN <<>> ELSE grown,
            !.population = IF last THEN grown ELSE @,
            !.survivors = IF last THEN <<>> ELSE @,
            !.fitnesses = IF last THEN <<>> ELSE @,
            !.gen = gen,
            !.pc = IF ~last THEN "breed"
                   ELSE IF gen < genetic.generations THEN "evaluate"
                   ELSE "done"]

\* the end of one pass of the "Crossover and mutation" loop: the two
\* children are appended; after the last pass the population is cut to
\* population_size and the generation ends
Bred(g, arrays, child1, child2, used) ==
    LET grown == g.new_population \o <<child1, child2>>
        last == Len(grown) >= Len(g.survivors)
        gen == IF last THEN g.gen + 1 ELSE g.gen
    IN  [g EXCEPT
            !.arrays = arrays,
            !.mutations = @ + used,
            !.new_population = IF last THEN <<>> ELSE grown,
            !.population = IF last THEN SubSeq(grown, 1, genetic.population_size)
                           ELSE @,
            !.survivors = IF last THEN <<>> ELSE @,
            !.fitnesses = IF last THEN <<>> ELSE @,
            !.gen = gen,
            !.pc = IF ~last THEN "breed"
                   ELSE IF gen < genetic.generations THEN "evaluate"
                   ELSE "done"]

\* one pass of the "Crossover and mutation" loop, for survivors i and i+1
\* (or for the last survivor alone when their number is odd)
GABreed ==
    /\ ga.pc = "breed"
    /\ LET i == Len(ga.new_population) + 1
           s == ga.survivors
           nw == Len(WeightsOf(ga, s[i]))
       IN  \E b1, b2 \in [1..nw -> BOOLEAN], m1, m2 \in Mutations(nw) :
             /\ ga.mutations + MutationCount(m1) + MutationCount(m2) <= MaxMutations
             /\ i + 1 > Len(s) => b1 = [j \in 1..nw |-> TRUE] /\ b2 = b1
             /\ LET c1 == IF i + 1 <= Len(s) THEN Crossover(ga, s[i], s[i + 1], b1)
                          ELSE [arrays |-> ga.arrays, child |-> CopyOf(s[i])]
                    c2 == IF i + 1 <= Len(s)
                          THEN Crossover([ga EXCEPT !.arrays = c1.arrays],
                                         s[i + 1], s[i], b2)
                          ELSE [arrays |-> ga.arrays, child |-> CopyOf(s[i])]
                    mu1 == Mutate(c2.arrays, c1.child, m1)
                    mu2 == Mutate(mu1.arrays, c2.child, m2)
                    g == Bred(ga, mu2.arrays, mu1.individual, mu2.individual,
                              MutationCount(m1) + MutationCount(m2))
                    r == Renumbered(genetic.best_individual, g)
                IN  /\ ga' = r.g
                    /\ genetic' = [genetic EXCEPT !.best_individual = r.best]
                    /\ out' = IF g.pc = "done" THEN Returned("genetic.fit", <<>>)
                              ELSE out
    /\ UNCHANGED <<X, train, fuzzy, timeseries, expert, ensemble, neural, detector, orchestrator>>

\* predict on an input of the caller, while no fit is running
GAPredictCall ==
    /\ ga.pc \in {"idle", "done"}
    /\ \E inp \in {X, train} :
           out' = GeneticPredict(genetic, ga.arrays, Values(inp))
    /\ UNCHANGED <<X, train, fuzzy, timeseries, expert, genetic, ga, ensemble, neural, detector, orchestrator>>

----------------------------------------------------------------------------
(* EnsembleAIDetector *)

\* Where an ensemble is built, the detectors fuzzy, expert, timeseries and
\* genetic are its own sub-scorers self.fuzzy, self.expert, self.timeseries
\* and self.genetic.

\* the weights __init__ takes when it is given none
DefaultWeights ==
    [fuzzy |-> SCALE \div 4, expert |-> SCALE \div 4,
     timeseries |-> SCALE \div 4, genetic |-> SCALE \div 4]

\* no ensemble has been constructed
NoEnsemble ==
    [built |-> FALSE,
     weights |-> [fuzzy |-> 0, expert |-> 0, timeseries |-> 0, genetic |-> 0]]

\* the weight mappings callers pass: summing to 1, summing to 0.9, and
\* summing to 1 with a negative weight
WeightMappings ==
    { [fuzzy |-> (4 * SCALE) \div 10, expert |-> (3 * SCALE) \div 10,
       timeseries |-> (2 * SCALE) \div 10, genetic |-> SCALE \div 10],
      [fuzzy |-> (3 * SCALE) \div 10, expert |-> (3 * SCALE) \div 10,
       timeseries |-> (2 * SCALE) \div 10, genetic |-> SCALE \div 10],
      [fuzzy |-> (15 * SCALE) \div 10, expert |-> 0,
       timeseries |-> 0 - SCALE \div 2, genetic |-> 0] }

\* the argument weights of __init__: <<>> stands for None, <<w>> for the
\* mapping w
WeightArgs == {<<>>} \cup {<<w>> : w \in WeightMappings}

\* __init__(weights): self.weights = weights or {...}
EnsembleNew(weights) ==
    [built |-> TRUE,
     weights |-> IF weights = <<>> THEN DefaultWeights ELSE weights[1]]

\* a faulty term: the score is added without its weight
Unweighted(w, score) == score

\* self.weights[name] * score
Weighted(w, score) == IF IsNaN(score) THEN NaN ELSE (w * score) \div SCALE

\* the ensemble with its sub-scorers, as predict reads it
EnsembleSelf ==
    [weights |-> ensemble.weights, fuzzy |-> fuzzy, expert |-> expert,
     timeseries |-> timeseries, genetic |-> genetic, arrays |-> ga.arrays]

\* predict(X): the weighted sum of the scores of fuzzy, of expert when X
\* has the attribute dtypes, of timeseries and of genetic; an error of a
\* sub-scorer's predict is not caught
EnsemblePredict(self, inp) ==
    LET n == Len(inp.rows)
        framed == inp.kind = "frame"
        fuzzy_scores == FuzzyPredict(self.fuzzy, Values(inp))
        expert_out == IF framed THEN ExpertPredict(self.expert, inp)
                      ELSE Returned("expert.predict", <<>>)
        ts_out == TimeSeriesPredict(self.timeseries, Values(inp))
        ga_out == GeneticPredict(self.genetic, self.arrays, Values(inp))
    IN  IF ~expert_out.ok \/ ~ts_out.ok THEN Raised("ensemble.predict")
        ELSE Returned("ensemble.predict",
               TupleTo([r \in 1..n |->
                  LET s1 == FAdd(0, Weighted(self.weights.fuzzy, fuzzy_scores[r]))
                      s2 == IF framed
                            THEN FAdd(s1, Weighted(self.weights.expert,
                                                   expert_out.scores[r]))
                            ELSE s1
                      s3 == FAdd(s2, Weighted(self.weights.timeseries,
                                              ts_out.scores[r]))
                  IN  FAdd(s3, Weighted(self.weights.genetic, ga_out.scores[r]))],
                  n))

\* GeneticAlgorithmDetector.fit(M, labels) as one step: drawn is the fittest
\* individual the run evaluates, <<weights, threshold>>; it is retained when
\* it is fitter than best_fitness, which the run starts with as the last fit
\* left it.  The result is the detector and the arrays it holds.
Evolved(self, arrays, M, labels, drawn) ==
    LET f == Fitness(drawn[1], drawn[2], M, labels)
    IN  IF f > self.best_fitness
        THEN [genetic |-> [self EXCEPT
                              !.best_fitness = f,
                              !.best_individual = [weights |-> 1,
                                                   threshold |-> drawn[2]]],
              arrays |-> <<drawn[1]>>]
        ELSE [genetic |-> self, arrays |-> arrays]

\* EnsembleAIDetector(weights), once: the run follows one ensemble
EnsembleConstruct ==
    \E weights \in WeightArgs :
        /\ ~ensemble.built
        /\ fuzzy' = FuzzyNew(DefaultNormal)
        /\ expert' = ExpertNew
        /\ timeseries' = TimeSeriesNew
        /\ genetic' = GeneticNew(15, 8)
        /\ ga' = GaIdle
        /\ ensemble' = EnsembleNew(weights)
        /\ out' = Returned("ensemble.__init__", <<>>)
        /\ UNCHANGED <<X, train, neural, detector, orchestrator>>

\* the rules callers register on the ensemble's expert scorer: one that
\* always matches and one that raises
EnsembleRuleChoices == {rule \in RuleChoices : rule.condition \in {"always", "raises"}}

\* ensemble.expert.add_rule(...)
EnsembleAddRule ==
    /\ ensemble.built
    /\ AddRule(EnsembleRuleChoices)

\* fit(train) with y = None: fuzzy.fit, expert.fit for a frame,
\* timeseries.fit, which forward fills the values of train in place, and
\* genetic.fit on the values as they are then
EnsembleFit ==
    /\ ensemble.built
    /\ LET M == Values(train)
           filled == FilledGrid(M)
       IN  /\ fuzzy' = FuzzyFitted(fuzzy, M)
           /\ expert' = IF train.kind = "frame" THEN ExpertFitted(expert, M)
                        ELSE expert
           /\ timeseries' = TimeSeriesFitted(timeseries, M)
           /\ train' = [train EXCEPT !.rows = filled]
           /\ \E drawn \in IndividualDraws(NumCols(M)) :
                 LET e == Evolved(genetic, ga.arrays, filled, <<>>, drawn)
                 IN  /\ genetic' = e.genetic
                     /\ ga' = [GaIdle EXCEPT !.pc = "done", !.arrays = e.arrays]
    /\ out' = Returned("ensemble.fit", <<>>)
    /\ UNCHANGED <<X, ensemble, neural, detector, orchestrator>>

EnsemblePredictCall ==
    /\ ensemble.built
    /\ out' = EnsemblePredict(EnsembleSelf, X)
    /\ UNCHANGED <<X, train, fuzzy, timeseries, expert, genetic, ga, ensemble, neural, detector, orchestrator>>

----------------------------------------------------------------------------
(* NeuralSymbolicDetector *)

\* __init__(): TF_AVAILABLE is whether tensorflow could be imported; the
\* attribute neural_model does not exist yet
NeuralNew(available) == [TF_AVAILABLE |-> available, has_model |-> FALSE]

\* the outputs of the sigmoid unit of a trained network, which the model
\* leaves open
SigmoidOutputs == {SCALE \div 4, (3 * SCALE) \div 4}

\* a faulty fallback: np.zeros(1) whatever the input
NeuralZerosOfOne(M) == <<0>>

\* np.zeros(len(X)): one zero for each row
NeuralZeros(M) == TupleTo([r \in 1..Len(M) |-> 0], Len(M))

\* fit(X): returns at once without tensorflow; otherwise trains a network
\* and stores it as neural_model
NeuralFitted(self) ==
    IF ~self.TF_AVAILABLE THEN self ELSE [self EXCEPT !.has_model = TRUE]

\* predict(X): the score vectors predict may return
NeuralPredict(self, M) ==
    IF ~self.TF_AVAILABLE \/ ~self.has_model THEN {NeuralZeros(M)}
    ELSE [1..Len(M) -> SigmoidOutputs]

NeuralFit ==
    /\ neural' = NeuralFitted(neural)
    /\ out' = Called(Returned("neural.fit", <<>>), <<Values(X)>>)
    /\ UNCHANGED <<X, train, fuzzy, timeseries, expert, genetic, ga, ensemble,
                   detector, orchestrator>>

NeuralPredictCall ==
    /\ \E scores \in NeuralPredict(neural, Values(X)) :
          out' = Called(Returned("neural.predict", scores), <<Values(X)>>)
    /\ UNCHANGED <<X, train, fuzzy, timeseries, expert, genetic, ga, ensemble,
                   neural, detector, orchestrator>>

----------------------------------------------------------------------------
(* AnomalyDetector *)

\* no AnomalyDetector has been constructed
NoDetector == [built |-> FALSE, method |-> "None", ai_detector |-> "None"]

\* factor=1.5
FACTOR == 1500

\* the names detect takes for a technique of ai_techniques
AiMethods ==
    {"fuzzy", "expert", "timeseries", "genetic", "ensemble", "neural_symbolic"}

\* a name no branch of train_ai or detect knows
UnknownMethod == "wavelet"

\* the technique names a caller passes: the default None, three techniques
\* and the unknown name
MethodChoices == {"None", "fuzzy", "expert", "timeseries", UnknownMethod}

\* __init__(method=method): no detector is trained; the variables fuzzy,
\* expert and timeseries stand for fuzzy_detector, expert_detector and
\* timeseries_detector
DetectorNew(method) ==
    [built |-> TRUE, method |-> method, ai_detector |-> "None"]

\* the scorers an AnomalyDetector holds
Parts == [fuzzy |-> fuzzy, expert |-> expert, timeseries |-> timeseries]

\* train_ai(df, ai_method=ai_method) with columns=None: a fresh scorer of
\* the technique is fit on the numeric columns and becomes ai_detector, and
\* method becomes ai_method; any other name raises ValueError
TrainAi(self, parts, df, ai_method) ==
    LET trained == [self EXCEPT !.ai_detector = ai_method,
                                !.method = ai_method]
    IN  CASE ai_method = "fuzzy" ->
                [ok |-> TRUE, self |-> trained,
                 parts |-> [parts EXCEPT !.fuzzy =
                              FuzzyFitted(FuzzyNew(DefaultNormal), Values(df))]]
          [] ai_method = "expert" ->
                [ok |-> TRUE, self |-> trained,
                 parts |-> [parts EXCEPT !.expert =
                              ExpertFitted(ExpertNew, Values(df))]]
          [] ai_method = "timeseries" ->
                [ok |-> TRUE, self |-> trained,
                 parts |-> [parts EXCEPT !.timeseries =
                              TimeSeriesFitted(TimeSeriesNew, Values(df))]]
          [] OTHER -> [ok |-> FALSE, self |-> self, parts |-> parts]

\* detect_iqr(series): the values outside [q1 - iqr * factor,
\* q3 + iqr * factor]; quantile skips nan and a comparison with nan is False
DetectIqr(self, series) ==
    LET q1 == Quantile(DropNaN(series), 1, 4)
        q3 == Quantile(DropNaN(series), 3, 4)
        iqr == FSub(q3, q1)
        spread == IF IsNaN(iqr) THEN NaN ELSE (iqr * FACTOR) \div SCALE
        lower_bound == FSub(q1, spread)
        upper_bound == FAdd(q3, spread)
    IN  TupleTo([i \in 1..Len(series) |->
                   FGt(lower_bound, series[i]) \/ FGt(series[i], upper_bound)],
                Len(series))

\* self.ai_detector.predict on df[columns] for 'expert' and on its values
\* for any other method
AiPredict(self, parts, df) ==
    CASE self.ai_detector = "fuzzy" ->
             Returned("fuzzy.predict", FuzzyPredict(parts.fuzzy, Values(df)))
      [] self.ai_detector = "expert" ->
             ExpertPredict(parts.expert,
                           IF self.method = "expert" THEN df
                           ELSE AsMatrix(Values(df)))
      [] self.ai_detector = "timeseries" ->
             TimeSeriesPredict(parts.timeseries, Values(df))

\* detect(df) with columns=None: the mask of the technique self.method
\* (trained first if no ai_detector is held), and for every other value of
\* self.method the IQR mask
Detect(self, parts, df) ==
    IF self.method \in AiMethods
    THEN LET t == IF self.ai_detector = "None"
                  THEN TrainAi(self, parts, df, self.method)
                  ELSE [ok |-> TRUE, self |-> self, parts |-> parts]
             scored == AiPredict(t.self, t.parts, df)
             threshold == IF t.self.method \in
                                {"fuzzy", "ensemble", "neural_symbolic"}
                          THEN SCALE \div 2 ELSE (3 * SCALE) \div 10
         IN  [self |-> t.self, parts |-> t.parts,
              out |-> IF ~t.ok \/ ~scored.ok THEN Raised("detector.detect")
                      ELSE Returned("detector.detect",
                             TupleTo([r \in 1..Len(df.rows) |->
                                        FGt(scored.scores[r], threshold)],
                                     Len(df.rows)))]
    ELSE [self |-> self, parts |-> parts,
          out |-> Returned("detector.detect",
                    TupleTo([r \in 1..Len(df.rows) |->
                               \E j \in 1..NumCols(Values(df)) :
                                  DetectIqr(self, Column(Values(df), j))[r]],
                            Len(df.rows)))]

\* detect_with_scores(df) with columns=None: the scores of ai_detector when
\* one is held, whatever self.method is; otherwise the IQR scores, the
\* largest over the columns of min(distances / (iqr + 1e-8), 1), where
\* np.maximum(0, lower - df[col], df[col] - upper) takes its third argument
\* as the output array, so distances is max(0, lower - value); nan
\* propagates through every step
DetectWithScores(self, parts, df) ==
    IF self.ai_detector # "None"
    THEN LET scored == AiPredict(self, parts, df)
         IN  IF scored.ok
             THEN Returned("detector.detect_with_scores", scored.scores)
             ELSE Raised("detector.detect_with_scores")
    ELSE LET M == Values(df)
             Score(series, i) ==
                 LET q1 == Quantile(DropNaN(series), 1, 4)
                     q3 == Quantile(DropNaN(series), 3, 4)
                     iqr == FSub(q3, q1)
                     spread == IF IsNaN(iqr) THEN NaN
                               ELSE (iqr * FACTOR) \div SCALE
                     below == FSub(FSub(q1, spread), series[i])
                     distances == IF IsNaN(below) THEN NaN
                                  ELSE IF below > 0 THEN below ELSE 0
                 IN  FMin(FDiv(distances, FAdd(iqr, EPS)), SCALE)
             RECURSIVE Largest(_, _)
             Largest(i, j) ==
                 IF j = 0 THEN 0
                 ELSE LET rest == Largest(i, j - 1)
                          s == Score(Column(M, j), i)
                      IN  IF IsNaN(rest) \/ IsNaN(s) THEN NaN
                          ELSE IF s > rest THEN s ELSE rest
         IN  Returned("detector.detect_with_scores",
                      TupleTo([i \in 1..Len(M) |-> Largest(i, NumCols(M))],
                              Len(M)))

DetectorConstruct ==
    /\ ~detector.built
    /\ \E method \in MethodChoices :
          /\ detector' = DetectorNew(method)
          /\ out' = Called(Returned("detector.__init__", <<>>), <<method>>)
    /\ UNCHANGED <<X, train, fuzzy, timeseries, expert, genetic, ga, ensemble,
                   neural, orchestrator>>

DetectorTrainAi ==
    /\ detector.built
    /\ \E ai_method \in MethodChoices \ {"None"} :
          LET t == TrainAi(detector, Parts, X, ai_method)
          IN  /\ detector' = t.self
              /\ fuzzy' = t.parts.fuzzy
              /\ expert' = t.parts.expert
              /\ timeseries' = t.parts.timeseries
              /\ out' = Called(IF t.ok THEN Returned("detector.train_ai", <<>>)
                               ELSE Raised("detector.train_ai"),
                               <<ai_method>>)
    /\ UNCHANGED <<X, train, genetic, ga, ensemble, neural, orchestrator>>

DetectorDetect ==
    /\ detector.built
    /\ LET d == Detect(detector, Parts, X)
       IN  /\ detector' = d.self
           /\ fuzzy' = d.parts.fuzzy
           /\ expert' = d.parts.expert
           /\ timeseries' = d.parts.timeseries
           /\ out' = Called(d.out, <<detector.method>>)
    /\ UNCHANGED <<X, train, genetic, ga, ensemble, neural, orchestrator>>

DetectorDetectWithScores ==
    /\ detector.built
    /\ out' = Called(DetectWithScores(detector, Parts, X), <<detector.method>>)
    /\ UNCHANGED <<X, train, fuzzy, timeseries, expert, genetic, ga, ensemble,
                   neural, detector, orchestrator>>

----------------------------------------------------------------------------
(* TestOrchestrator *)

\* the hooks one orchestrator is given at most
MaxHooks == 1

\* extract, transform, load, in the order run_etl_test runs them
StageOrder == <<"extract", "transform", "load">>

\* the keys of self.hooks: pre_extract, post_extract, ..., post_load
HookStages == {"pre", "post"} \X {"extract", "transform", "load"}

\* what a hook does when called: it returns no alert, a warning or a
\* critical alert of its own, or it raises
HookKinds == {"quiet", "warns", "critical", "raises"}

\* no TestOrchestrator has been constructed
NoOrchestrator ==
    [built |-> FALSE, halt_on_critical |-> TRUE,
     hooks |-> [h \in HookStages |-> <<>>],
     stage_results |-> [s \in {"extract", "transform", "load"} |->
                          [present |-> FALSE, passed |-> FALSE, alerts |-> <<>>]],
     called |-> <<>>]

\* _execute_hooks(stage, data, context): the alerts the hooks of the stage
\* return, in order, and a critical hook_error alert for a hook that raises
ExecuteHooks(self, stage) ==
    LET hooks == self.hooks[stage]
        AlertsOf(kind) ==
            CASE kind = "quiet" -> <<>>
              [] kind = "warns" -> <<[type |-> "hook", severity |-> "warning"]>>
              [] kind = "critical" ->
                    <<[type |-> "hook", severity |-> "critical"]>>
              [] kind = "raises" ->
                    <<[type |-> "hook_error", severity |-> "critical"]>>
        RECURSIVE Alerts(_)
        Alerts(k) == IF k = 0 THEN <<>>
                     ELSE Alerts(k - 1) \o AlertsOf(hooks[k])
    IN  Alerts(Len(hooks))

\* what _validate_extract, _validate_transform and _validate_load do on the
\* data of a run: no alert, a warning (too few records, a high anomaly
\* rate), a critical alert (missing required columns, no output file), or
\* an exception other than RuntimeError (data that is no frame, a
\* transformed frame without rows)
ValidatorOutcomes(stage) ==
    CASE stage = "extract" -> {"clean", "warning", "critical", "error"}
      [] stage = "transform" -> {"clean", "warning", "error"}
      [] stage = "load" -> {"clean", "critical"}

HasCritical(alerts) ==
    \E k \in 1..Len(alerts) : alerts[k].severity = "critical"

\* _validate_stage(stage, data, context) with validation enabled: raised is
\* whether the RuntimeError of a critical failure leaves the method
ValidateStage(self, stage, outcome) ==
    LET alerts ==
            CASE outcome = "clean" -> <<>>
              [] outcome = "warning" ->
                    <<[type |-> IF stage = "transform" THEN "anomaly_detection"
                                ELSE "data_quality",
                       severity |-> "warning"]>>
              [] outcome = "critical" ->
                    <<[type |-> IF stage = "load" THEN "load_failure"
                                ELSE "data_quality",
                       severity |-> "critical"]>>
              [] outcome = "error" ->
                    <<[type |-> "validation_error", severity |-> "critical"]>>
    IN  IF outcome # "error" /\ HasCritical(alerts) /\ self.halt_on_critical
        THEN [raised |-> TRUE, passed |-> FALSE, alerts |-> alerts]
        ELSE [raised |-> FALSE, passed |-> ~HasCritical(alerts),
              alerts |-> alerts]

\* run_etl_test up to the end of stage k of StageOrder: the hooks before,
\* the stage function, the hooks after, the validation and the entry of
\* stage_results; a RuntimeError of the validation ends the run
RECURSIVE RunStages(_, _, _)
RunStages(self, outcomes, k) ==
    IF k = 0 THEN [self |-> [self EXCEPT !.called = <<>>], raised |-> FALSE]
    ELSE LET before == RunStages(self, outcomes, k - 1)
             stage == StageOrder[k]
             pre_alerts == ExecuteHooks(self, <<"pre", stage>>)
             post_alerts == ExecuteHooks(self, <<"post", stage>>)
             validation_result == ValidateStage(self, stage, outcomes[k])
             running == [before.self EXCEPT !.called = Append(@, stage)]
         IN  IF before.raised THEN before
             ELSE IF validation_result.raised
             THEN [self |-> running, raised |-> TRUE]
             ELSE [self |-> [running EXCEPT !.stage_results[stage] =
                               [present |-> TRUE,
                                passed |-> validation_result.passed,
                                alerts |-> pre_alerts \o post_alerts
                                           \o validation_result.alerts]],
                   raised |-> FALSE]

\* the hooks registered so far, over all the stages
HooksHeld(self) ==
    LET RECURSIVE Count(_)
        Count(S) == IF S = {} THEN 0
                    ELSE LET h == CHOOSE h \in S : TRUE
                         IN  Len(self.hooks[h]) + Count(S \ {h})
    IN  Count(HookStages)

\* TestOrchestrator(config), once
OrchestratorConstruct ==
    /\ ~orchestrator.built
    /\ \E halt_on_critical \in BOOLEAN :
          orchestrator' = [NoOrchestrator EXCEPT
                             !.built = TRUE,
                             !.halt_on_critical = halt_on_critical]
    /\ out' = Returned("orchestrator.__init__", <<>>)
    /\ UNCHANGED <<X, train, fuzzy, timeseries, expert, genetic, ga, ensemble,
                   neural, detector>>

\* register_hook(stage, hook_func): a stage that is no key of self.hooks
\* raises ValueError
RegisterHook ==
    /\ orchestrator.built
    /\ \E stage \in HookStages \cup {<<"pre", "validate">>}, kind \in HookKinds :
          IF stage \notin HookStages
          THEN /\ out' = Raised("orchestrator.register_hook")
               /\ UNCHANGED orchestrator
          ELSE /\ HooksHeld(orchestrator) < MaxHooks
               /\ orchestrator' = [orchestrator EXCEPT
                                     !.hooks[stage] = Append(@, kind)]
               /\ out' = Returned("orchestrator.register_hook", <<>>)
    /\ UNCHANGED <<X, train, fuzzy, timeseries, expert, genetic, ga, ensemble,
                   neural, detector>>

\* run_etl_test(extract_func, transform_func, load_func) with stage
\* functions that return: success is all(stage['passed']) over
\* stage_results; the reports it writes are left out
RunEtlTest ==
    /\ orchestrator.built
    /\ \E outcomes \in [1..3 -> {"clean", "warning", "critical", "error"}] :
          /\ \A k \in 1..3 : outcomes[k] \in ValidatorOutcomes(StageOrder[k])
          /\ LET run == RunStages(orchestrator, outcomes, 3)
             IN  /\ orchestrator' = run.self
                 /\ out' = IF run.raised
                           THEN Raised("orchestrator.run_etl_test")
                           ELSE Returned("orchestrator.run_etl_test",
                                  <<\A k \in 1..3 :
                                       run.self.stage_results[StageOrder[k]].passed>>)
    /\ UNCHANGED <<X, train, fuzzy, timeseries, expert, genetic, ga, ensemble,
                   neural, detector>>

----------------------------------------------------------------------------
(* Specifications *)

InitFuzzy ==
    /\ X \in {AsMatrix(M) : M \in Matrices}
    /\ train = X
    /\ fuzzy \in {FuzzyNew(s) : s \in FuzzySetChoices}
    /\ timeseries = TimeSeriesNew
    /\ expert = ExpertNew
    /\ genetic = GeneticNew(20, 10)
    /\ ga = GaIdle
    /\ ensemble = NoEnsemble
    /\ neural = NeuralNew(FALSE)
    /\ detector = NoDetector
    /\ orchestrator = NoOrchestrator
    /\ out = NoCall

NextFuzzy == FuzzyFit \/ FuzzyPredictCall

SpecFuzzy == InitFuzzy /\ [][NextFuzzy]_vars

\* one fuzzy scorer fit on a matrix of two columns and on a matrix of one, in
\* either order and any number of times
InitRefit ==
    /\ X \in {AsMatrix(M) : M \in MatricesOf(1)}
    /\ train \in {AsMatrix(M) : M \in MatricesOf(2)}
    /\ fuzzy = FuzzyNew(DefaultNormal)
    /\ timeseries = TimeSeriesNew
    /\ expert = ExpertNew
    /\ genetic = GeneticNew(20, 10)
    /\ ga = GaIdle
    /\ ensemble = NoEnsemble
    /\ neural = NeuralNew(FALSE)
    /\ detector = NoDetector
    /\ orchestrator = NoOrchestrator
    /\ out = NoCall

NextRefit == FuzzyFit \/ FuzzyPredictCall

SpecRefit == InitRefit /\ [][NextRefit]_vars

\* the membership function alone, on a detector with the default sets
InitMembership ==
    /\ X = AsMatrix(<<<<0>>>>)
    /\ train = X
    /\ fuzzy = FuzzyNew(DefaultNormal)
    /\ timeseries = TimeSeriesNew
    /\ expert = ExpertNew
    /\ genetic = GeneticNew(20, 10)
    /\ ga = GaIdle
    /\ ensemble = NoEnsemble
    /\ neural = NeuralNew(FALSE)
    /\ detector = NoDetector
    /\ orchestrator = NoOrchestrator
    /\ out = NoCall

NextMembership == TriangularMembershipCall

SpecMembership == InitMembership /\ [][NextMembership]_vars

\* _crossover called on its own, on parents of the caller
SpecCrossover == InitMembership /\ [][CrossoverCall]_vars

\* the inputs of the forecast scorer: one column with any pair of matrices,
\* two columns with a one-row matrix to predict on
InitForecast ==
    /\ train \in {AsMatrix(M) : M \in MatricesOf(1) \cup MatricesOf(2)}
    /\ X \in {AsMatrix(M) :
                M \in IF NumCols(train.rows) = 1 THEN MatricesOf(1)
                      ELSE Probes(2)}
    /\ fuzzy = FuzzyNew(DefaultNormal)
    /\ timeseries = TimeSeriesNew
    /\ expert = ExpertNew
    /\ genetic = GeneticNew(20, 10)
    /\ ga = GaIdle
    /\ ensemble = NoEnsemble
    /\ neural = NeuralNew(FALSE)
    /\ detector = NoDetector
    /\ orchestrator = NoOrchestrator
    /\ out = NoCall

NextForecast == TimeSeriesFit \/ TimeSeriesPredictCall

SpecForecast == InitForecast /\ [][NextForecast]_vars

\* the row labels of a frame of n rows: the default range, the range
\* shifted by one (rows were dropped), reversed, all equal, and starting
\* below zero
IndexChoices(n) ==
    { RangeIndex(n), [i \in 1..n |-> i], [i \in 1..n |-> n - i],
      [i \in 1..n |-> 0], [i \in 1..n |-> i - 2] }

InitExpert ==
    /\ X \in UNION {{AsFrame(M, ix) : ix \in IndexChoices(Len(M))} :
                     M \in MatricesOf(1)}
    /\ train = X
    /\ fuzzy = FuzzyNew(DefaultNormal)
    /\ timeseries = TimeSeriesNew
    /\ expert = ExpertNew
    /\ genetic = GeneticNew(20, 10)
    /\ ga = GaIdle
    /\ ensemble = NoEnsemble
    /\ neural = NeuralNew(FALSE)
    /\ detector = NoDetector
    /\ orchestrator = NoOrchestrator
    /\ out = NoCall

NextExpert == ExpertAddRule \/ ExpertFit \/ ExpertPredictCall

SpecExpert == InitExpert /\ [][NextExpert]_vars

\* the matrices the genetic scorer is fit on, and the ones it is asked to
\* score besides
GeneticTrain == { <<<<0, 0>>, <<5, 0>>, <<0, 5>>>> }

GeneticProbes == { <<<<0, 5>>, <<5, NaN>>>> }

\* population_size and generations of the detectors: an even population
\* over one and two generations, an odd one over one
GeneticConfigs == {<<2, 1>>, <<2, 2>>, <<3, 1>>}

InitGenetic ==
    /\ train \in {AsMatrix(M) : M \in GeneticTrain}
    /\ X \in {AsMatrix(M) : M \in GeneticProbes}
    /\ fuzzy = FuzzyNew(DefaultNormal)
    /\ timeseries = TimeSeriesNew
    /\ expert = ExpertNew
    /\ genetic \in {GeneticNew(c[1], c[2]) : c \in GeneticConfigs}
    /\ ga = GaIdle
    /\ ensemble = NoEnsemble
    /\ neural = NeuralNew(FALSE)
    /\ detector = NoDetector
    /\ orchestrator = NoOrchestrator
    /\ out = NoCall

NextGenetic == GAFitStart \/ GAEvaluate \/ GASelect \/ GABreed \/ GAPredictCall

SpecGenetic == InitGenetic /\ [][NextGenetic]_vars

\* the fits followed to their end: an odd population on one column for one
\* generation, an even one on two columns for two generations, and one on
\* a matrix without rows; each is <<matrix, population_size, generations>>
EvolveRuns ==
    { <<<<>>, 2, 1>>,
      <<<<<<0>>, <<5>>, <<0>>>>, 3, 1>>,
      <<<<<<0, 0>>, <<5, 0>>, <<0, 5>>>>, 2, 2>> }

InitEvolve ==
    /\ \E run \in EvolveRuns :
          /\ train = AsMatrix(run[1])
          /\ genetic = GeneticNew(run[2], run[3])
    /\ X = train
    /\ fuzzy = FuzzyNew(DefaultNormal)
    /\ timeseries = TimeSeriesNew
    /\ expert = ExpertNew
    /\ ga = GaIdle
    /\ ensemble = NoEnsemble
    /\ neural = NeuralNew(FALSE)
    /\ detector = NoDetector
    /\ orchestrator = NoOrchestrator
    /\ out = NoCall

SpecEvolve == InitEvolve /\ [][NextGenetic]_vars

\* the inputs of the ensemble: one column, as a matrix and as a frame with
\* the default row labels
InitEnsemble ==
    /\ X \in UNION {{AsMatrix(M), AsFrame(M, RangeIndex(Len(M)))} :
                     M \in MatricesOf(1)}
    /\ train = X
    /\ fuzzy = FuzzyNew(DefaultNormal)
    /\ timeseries = TimeSeriesNew
    /\ expert = ExpertNew
    /\ genetic = GeneticNew(15, 8)
    /\ ga = GaIdle
    /\ ensemble = NoEnsemble
    /\ neural = NeuralNew(FALSE)
    /\ detector = NoDetector
    /\ orchestrator = NoOrchestrator
    /\ out = NoCall

NextEnsemble ==
    EnsembleConstruct \/ EnsembleAddRule \/ EnsembleFit \/ EnsemblePredictCall

SpecEnsemble == InitEnsemble /\ [][NextEnsemble]_vars

\* a neural scorer, constructed with or without tensorflow, and a matrix of
\* one or two columns
InitNeural ==
    /\ X \in {AsMatrix(M) : M \in MatricesOf(1) \cup MatricesOf(2)}
    /\ train = X
    /\ fuzzy = FuzzyNew(DefaultNormal)
    /\ timeseries = TimeSeriesNew
    /\ expert = ExpertNew
    /\ genetic = GeneticNew(20, 10)
    /\ ga = GaIdle
    /\ ensemble = NoEnsemble
    /\ neural \in {NeuralNew(FALSE), NeuralNew(TRUE)}
    /\ detector = NoDetector
    /\ orchestrator = NoOrchestrator
    /\ out = NoCall

NextNeural == NeuralFit \/ NeuralPredictCall

SpecNeural == InitNeural /\ [][NextNeural]_vars

\* an AnomalyDetector and a frame of one or two numeric columns, with the
\* default row labels or labels from 1
InitDetector ==
    /\ X \in UNION {{AsFrame(M, RangeIndex(Len(M))),
                      AsFrame(M, [i \in 1..Len(M) |-> i])} :
                     M \in MatricesOf(1) \cup MatricesOf(2)}
    /\ train = X
    /\ fuzzy = FuzzyNew(DefaultNormal)
    /\ timeseries = TimeSeriesNew
    /\ expert = ExpertNew
    /\ genetic = GeneticNew(20, 10)
    /\ ga = GaIdle
    /\ ensemble = NoEnsemble
    /\ neural = NeuralNew(FALSE)
    /\ detector = NoDetector
    /\ orchestrator = NoOrchestrator
    /\ out = NoCall

NextDetector ==
    \/ DetectorConstruct \/ DetectorTrainAi \/ DetectorDetect
    \/ DetectorDetectWithScores

SpecDetector == InitDetector /\ [][NextDetector]_vars

\* a TestOrchestrator that is constructed, given hooks and run; the scorers
\* are left as they are built
InitOrchestrator ==
    /\ X = AsMatrix(<<>>)
    /\ train = X
    /\ fuzzy = FuzzyNew(DefaultNormal)
    /\ timeseries = TimeSeriesNew
    /\ expert = ExpertNew
    /\ genetic = GeneticNew(20, 10)
    /\ ga = GaIdle
    /\ ensemble = NoEnsemble
    /\ neural = NeuralNew(FALSE)
    /\ detector = NoDetector
    /\ orchestrator = NoOrchestrator
    /\ out = NoCall

NextOrchestrator == OrchestratorConstruct \/ RegisterHook \/ RunEtlTest

SpecOrchestrator == InitOrchestrator /\ [][NextOrchestrator]_vars

\* an ensemble and its sub-scorers, each asked to predict: the ensemble is
\* fit on the matrix train of MaxRows rows, a constant column or a step, and
\* asked about train or about a one-row matrix
InitPredict ==
    /\ train \in {AsMatrix([i \in 1..MaxRows |-> <<c>>]) : c \in Cells} \cup
                 {AsMatrix([i \in 1..MaxRows |-> <<IF i = 1 THEN 0 ELSE 5>>])}
    /\ X \in {train, AsMatrix(<<<<NaN>>>>), AsMatrix(<<<<5>>>>)}
    /\ fuzzy = FuzzyNew(DefaultNormal)
    /\ timeseries = TimeSeriesNew
    /\ expert = ExpertNew
    /\ genetic = GeneticNew(15, 8)
    /\ ga = GaIdle
    /\ ensemble = NoEnsemble
    /\ neural = NeuralNew(FALSE)
    /\ detector = NoDetector
    /\ orchestrator = NoOrchestrator
    /\ out = NoCall

NextPredict ==
    \/ EnsembleConstruct \/ EnsembleAddRule \/ EnsembleFit
    \/ FuzzyPredictCall \/ ExpertPredictCall \/ TimeSeriesPredictCall
    \/ GAPredictCall \/ EnsemblePredictCall

SpecPredict == InitPredict /\ [][NextPredict]_vars

----------------------------------------------------------------------------
(* Properties *)

\* a score that is a number of [0, 1]
InUnit(score) == ~IsNaN(score) /\ 0 <= score /\ score <= SCALE

AllInUnit(scores) == \A r \in 1..Len(scores) : InUnit(scores[r])

WeightTotal(w) == w.fuzzy + w.expert + w.timeseries + w.genetic

NonNegative(w) ==
    w.fuzzy >= 0 /\ w.expert >= 0 /\ w.timeseries >= 0 /\ w.genetic >= 0

\* a weight vector that sums to 1, up to the rounding of the fixed point
\* division that normalised it (one unit for each weight)
SumsToOne(weights) == Abs(SeqSum(weights) - SCALE) <= Len(weights)

\* the ensemble has been fit: its fuzzy scorer holds scaler_params
EnsembleIsFitted == ensemble.built /\ fuzzy.scaler_params # <<>>

\* the four predict calls of the ensemble's sub-scorers on X; the expert
\* scorer is given X as a frame
FuzzyTerm == FuzzyPredict(fuzzy, Values(X))

ExpertTerm == ExpertPredict(expert, AsFrame(Values(X), X.index))

TimeSeriesTerm == TimeSeriesPredict(timeseries, Values(X))

GeneticTerm == GeneticPredict(genetic, ga.arrays, Values(X))

\* every predict of a sub-scorer that the ensemble calls on X returns scores
\* in [0, 1]
SubScoresInUnit ==
    /\ AllInUnit(FuzzyTerm)
    /\ X.kind = "frame" => ExpertTerm.ok /\ AllInUnit(ExpertTerm.scores)
    /\ TimeSeriesTerm.ok /\ AllInUnit(TimeSeriesTerm.scores)
    /\ AllInUnit(GeneticTerm.scores)

\* C1: constructing an EnsembleAIDetector with weights that do not sum to 1
\* fails; so whenever a construction has returned, the weights of the
\* ensemble sum to 1.
C1_ConstructionChecksWeights ==
    (out.op = "ensemble.__init__" /\ out.ok) =>
        WeightTotal(ensemble.weights) = SCALE

C3_FourTermSum ==
    (out.op = "ensemble.predict" /\ out.ok) =>
        /\ ExpertTerm.ok
        /\ \A r \in 1..Len(X.rows) :
              out.scores[r] =
                 FAdd(FAdd(FAdd(Weighted(ensemble.weights.fuzzy, FuzzyTerm[r]),
                                Weighted(ensemble.weights.expert,
                                         ExpertTerm.scores[r])),
                           Weighted(ensemble.weights.timeseries,
                                    TimeSeriesTerm.scores[r])),
                      Weighted(ensemble.weights.genetic, GeneticTerm.scores[r]))

\* C4: predict of a fitted FuzzyLogicDetector, on a matrix with the column
\* count of the training matrix, returns one score per row, each in [0, 1],
\* also for rows with missing values.
C4_FuzzyScoresInUnit ==
    (/\ out.op = "fuzzy.predict"
     /\ Len(fuzzy.scaler_params) = NumCols(X.rows)) =>
        /\ out.ok
        /\ Len(out.scores) = Len(X.rows)
        /\ AllInUnit(out.scores)

\* C5: predict of a fitted TimeSeriesForecastingDetector, on a matrix with
\* the column count of the training matrix, returns (never raises) one score
\* per row, each a number in [0, 1], whatever the row counts and the missing
\* values of the two matrices.
C5_ForecastScoresInUnit ==
    (/\ out.op = "timeseries.predict"
     /\ Len(timeseries.forecasts) = NumCols(out.args[1])) =>
        /\ out.ok
        /\ Len(out.scores) = Len(out.args[1])
        /\ AllInUnit(out.scores)

\* C6: predict of a fitted GeneticAlgorithmDetector, on a matrix with the
\* column count of the training matrix, returns one score per row of the
\* matrix it was given, each in [0, 1], also for rows with missing values.
C6_GeneticScoresInUnit ==
    (out.op = "genetic.predict" /\ ga.pc = "done") =>
        /\ out.ok
        /\ Len(out.scores) \in {Len(X.rows), Len(train.rows)}
        /\ AllInUnit(out.scores)

\* C7: at the end of every generation and after fit has returned, the weights
\* of best_individual sum to 1 and its threshold lies in [0.1, 0.9].
C7_BestIsNormalised ==
    (ga.gen >= 1 /\ ga.pc \in {"evaluate", "done"}) =>
        /\ genetic.best_individual # None
        /\ SumsToOne(WeightsOf(ga, genetic.best_individual))
        /\ genetic.best_individual.threshold >= SCALE \div 10
        /\ genetic.best_individual.threshold <= (9 * SCALE) \div 10

\* C8: after fit has returned, best_individual has exactly the weights and
\* the threshold that the fittest individual evaluated had when it was
\* evaluated, and best_fitness is its fitness.
C8_BestIsFittestAsEvaluated ==
    ga.pc = "done" =>
        /\ genetic.best_individual # None
        /\ genetic.best_fitness = ga.seen.fitness
        /\ WeightsOf(ga, genetic.best_individual) = ga.seen.weights
        /\ genetic.best_individual.threshold = ga.seen.threshold

\* C9: predict of an ExpertSystemDetector without rules returns a zero for
\* every row of the frame, whatever the row labels of the frame.
C9_NoRulesAllZero ==
    (out.op = "expert.predict" /\ expert.rules = <<>>) =>
        /\ out.ok
        /\ Len(out.scores) = Len(X.rows)
        /\ \A r \in 1..Len(out.scores) : out.scores[r] = 0

\* C10: predict never raises because a rule raised; with one rule, whose
\* predicate always raises, every row of the frame scores 0.5.
C10_RaisingRuleIsNeutral ==
    /\ (/\ out.op = "expert.predict"
        /\ \E k \in 1..Len(expert.rules) : expert.rules[k].condition = "raises")
          => out.ok
    /\ (/\ out.op = "expert.predict"
        /\ Len(expert.rules) = 1
        /\ expert.rules[1].condition = "raises")
          => /\ out.ok
             /\ Len(out.scores) = Len(X.rows)
             /\ \A r \in 1..Len(out.scores) : out.scores[r] = SCALE \div 2

\* the confidences that count for a row: of each rule, in registration
\* order, its confidence if its predicate returned true, 0.5 if it raised,
\* nothing if it returned false
FiredConfidences(rules, row, context_vars) ==
    LET fired == SelectSeq(rules, LAMBDA rule :
                    Evaluate(rule.condition, row, context_vars) # "NotMatched")
    IN  TupleTo([k \in 1..Len(fired) |->
                   IF Evaluate(fired[k].condition, row, context_vars) = "Matched"
                   THEN fired[k].confidence ELSE SCALE \div 2], Len(fired))

\* C11: predict returns one score per row of the frame, in row order; the
\* score of a row is the mean of the confidences of the rules that returned
\* true for it, with 0.5 for each rule that raised, and 0 when no rule fired
\* or raised; every score is in [0, 1].
C11_RowScoreIsMeanOfFired ==
    out.op = "expert.predict" =>
        /\ out.ok
        /\ Len(out.scores) = Len(X.rows)
        /\ AllInUnit(out.scores)
        /\ \A r \in 1..Len(out.scores) :
              LET c == FiredConfidences(expert.rules, X.rows[r],
                                        expert.context_vars)
              IN  out.scores[r] = IF c = <<>> THEN 0
                                  ELSE SeqSum(c) \div Len(c)

\* C12: _triangular_membership(x, a, b, c) with a < b < c is exactly 1 at
\* the peak x = b, 0 for x <= a and for x >= c, and strictly between 0 and 1
\* at every other x.
C12_MembershipPeakIsOne ==
    out.op = "fuzzy._triangular_membership" =>
        LET x == out.args[1]
            a == out.args[2]
            b == out.args[3]
            c == out.args[4]
            m == out.scores[1]
        IN  /\ x = b => m = SCALE
            /\ (x <= a \/ x >= c) => m = 0
            /\ (a < x /\ x < c /\ x # b) => (0 < m /\ m < SCALE)

\* a column without missing values whose values are all equal
IsConstant(col) ==
    /\ ~HasNaN(col)
    /\ \A i \in 1..Len(col) : col[i] = col[1]

\* C13: after fit, the sigma stored for a column is strictly greater than 0,
\* also for a column whose values are all equal, whatever the number of
\* rows (stated for the columns that hold no missing value).
C13_SigmaPositive ==
    \A j \in 1..Len(timeseries.residuals) :
        ~HasNaN(Column(train.rows, j)) =>
            (~IsNaN(timeseries.residuals[j]) /\ timeseries.residuals[j] > 0)

PredictOps ==
    {"fuzzy.predict", "expert.predict", "timeseries.predict",
     "genetic.predict", "ensemble.predict"}

\* C15: a predict call of a scorer or of the ensemble leaves the fitted
\* state as it was: scaler parameters, rules and context, forecasts and
\* sigmas, best individual (with its weights) and best fitness.
C15_PredictKeepsFittedState ==
    [][out'.op \in PredictOps =>
          UNCHANGED <<fuzzy, expert, timeseries, genetic, ga, orchestrator>>]_vars

\* C15, the case: the forecast scorer of a fitted ensemble has been asked to
\* predict on data other than the fit data.
C15_Reached ==
    /\ out.op = "timeseries.predict"
    /\ EnsembleIsFitted
    /\ timeseries.forecasts # <<>>
    /\ out.args[1] # train.rows

\* C16: a fit replaces the fitted state: after fit(A) then fit(B), the fuzzy
\* scorer holds scaler parameters for the columns of B and for no other
\* column index.
C16_FitReplacesState ==
    out.op = "fuzzy.fit" =>
        Len(fuzzy.scaler_params) = NumCols(out.args[1])

\* C17: an unknown technique name is an error for the caller, given to
\* train_ai or held by the detector that is asked to detect: the call raises
\* and returns no mask.
C17_UnknownMethodRaises ==
    (/\ out.op \in {"detector.train_ai", "detector.detect"}
     /\ out.args[1] = UnknownMethod)
        => ~out.ok

\* C18: without the toolkit, fit of the neural scorer returns without error
\* and stores no model, and predict, before a fit or after it, returns one
\* score for each input row, each of them zero.
C18_NoToolkitAllZero ==
    ~neural.TF_AVAILABLE =>
        /\ ~neural.has_model
        /\ out.op = "neural.fit" => out.ok
        /\ out.op = "neural.predict" =>
              /\ out.ok
              /\ Len(out.scores) = Len(out.args[1])
              /\ \A r \in 1..Len(out.scores) : out.scores[r] = 0

\* C18, the case: predict without the toolkit on a matrix of two rows and
\* two columns.
C18_Reached ==
    /\ ~neural.TF_AVAILABLE
    /\ out.op = "neural.predict"
    /\ Len(out.args[1]) = 2
    /\ NumCols(out.args[1]) = 2
    /\ Len(out.scores) = 2

\* C19: in fuzzy predict on a matrix of num_columns columns a missing value
\* adds 0.5 / num_columns to the score of its row, so a row whose every
\* normalised value is missing scores 0.5.
C19_AllMissingRowScoresHalf ==
    out.op = "fuzzy.predict" =>
        \A r \in 1..Len(X.rows) :
            (\A j \in 1..NumCols(X.rows) :
                 IsNaN(Normalize(Column(X.rows, j))[r]))
                => out.scores[r] = SCALE \div 2

\* C20: the normalisation of a column keeps a missing value missing,
\* whatever the other values of the column, so in predict the row of a
\* missing value is given the penalty of a missing value, which is at least
\* half of one column's share.
C20_MissingStaysMissing ==
    out.op = "fuzzy.predict" =>
        \A r \in 1..Len(X.rows) : \A j \in 1..NumCols(X.rows) :
            IsNaN(X.rows[r][j]) =>
                /\ IsNaN(Normalize(Column(X.rows, j))[r])
                /\ out.scores[r] * NumCols(X.rows) >= SCALE \div 2

\* C21: fit of the ensemble fits each of the four sub-scorers on the
\* caller's matrix: for a matrix as for a frame the expert scorer holds the
\* context of every column of the input.
C21_EverySubScorerIsFit ==
    out.op = "ensemble.fit" =>
        /\ Len(fuzzy.scaler_params) = NumCols(Values(train))
        /\ Len(timeseries.forecasts) = NumCols(Values(train))
        /\ Len(expert.context_vars) = NumCols(Values(train))

\* C22: while fit of the genetic scorer runs and after it, the population
\* holds population_size individuals at the start of every generation and
\* after the last, and every individual has one weight for each column.
C22_PopulationKeepsItsSize ==
    ga.pc \in {"evaluate", "select", "breed", "done"} =>
        /\ Len(ga.population) = genetic.population_size
        /\ \A i \in 1..Len(ga.population) :
              Len(WeightsOf(ga, ga.population[i])) = NumCols(Values(train))

\* C22, the case: a fit with an odd population_size has bred its last
\* generation.
C22_Reached ==
    /\ ga.pc = "done"
    /\ genetic.population_size = 3
    /\ ga.gen = genetic.generations
    /\ Len(ga.population) = 3

\* C23: fit of the genetic scorer ends after `generations` generations and,
\* for generations >= 1 and population_size >= 2, with best_individual set.
C23_FitEndsWithBest ==
    ga.pc = "done" =>
        /\ ga.gen = genetic.generations
        /\ genetic.best_individual # None

\* C24: _crossover of two parents with non-negative weights that sum to 1
\* returns a child with as many weights, each taken from a parent at the
\* same position and then renormalised, summing to 1, with the mean of the
\* parents' thresholds; the parents' arrays and thresholds stay.
C24_ChildIsNormalisedMix ==
    out.op = "genetic._crossover" =>
        LET w1 == out.args[1]
            w2 == out.args[2]
            parent1 == ga.population[1]
            parent2 == ga.population[2]
            child == ga.population[3]
            weights == out.scores
        IN  /\ Len(weights) = Len(w1)
            /\ \E from_first \in [1..Len(w1) -> BOOLEAN] :
                  weights = Normalized([j \in 1..Len(w1) |->
                               IF from_first[j] THEN w1[j] ELSE w2[j]])
            /\ ~HasNaN(weights)
            /\ Abs(SeqSum(weights) - SCALE) <= Len(weights)
            /\ child.threshold = (parent1.threshold + parent2.threshold) \div 2
            /\ WeightsOf(ga, parent1) = w1
            /\ WeightsOf(ga, parent2) = w2

\* C25: add_rule appends one entry and keeps every earlier entry in its
\* place, whether or not the name is already registered, and predict
\* evaluates every entry of the list, two of one name included, for every
\* row of the frame.
C25_RulesKeepEveryCall ==
    [][/\ out'.op = "expert.add_rule" =>
            /\ Len(expert'.rules) = Len(expert.rules) + 1
            /\ SubSeq(expert'.rules, 1, Len(expert.rules)) = expert.rules
       /\ out'.op = "expert.predict" =>
            /\ expert'.rules = expert.rules
            /\ out'.ok
            /\ \A r \in 1..Len(X.rows) :
                  LET c == FiredConfidences(expert.rules, X.rows[r],
                                            expert.context_vars)
                  IN  out'.scores[r] = IF c = <<>> THEN 0
                                       ELSE SeqSum(c) \div Len(c)]_vars

\* C26: fit of the forecast scorer, and so fit of the ensemble, leaves
\* every cell of the caller's matrix, missing values included, as it was.
C26_FitKeepsCallersMatrix ==
    [][out'.op \in {"timeseries.fit", "ensemble.fit"} => train' = train]_vars

\* C27: the scores fuzzy predict returns for a matrix are those of a
\* detector with the same fuzzy sets that was never fit, whatever this
\* detector was fit on.
C27_PredictIgnoresFit ==
    out.op = "fuzzy.predict" =>
        out.scores = FuzzyPredict(FuzzyNew(fuzzy.fuzzy_sets), Values(X))

\* C27, the case: predict on a matrix by a detector that was fit on another
\* matrix, with a score above zero.
C27_Reached ==
    /\ out.op = "fuzzy.predict"
    /\ Len(fuzzy.scaler_params) = 2
    /\ fuzzy.scaler_params = FuzzyFitted(FuzzyNew(fuzzy.fuzzy_sets),
                                         Values(train)).scaler_params
    /\ Values(train) # Values(X)
    /\ Len(X.rows) = 2
    /\ \E r \in 1..Len(out.scores) : out.scores[r] > 0

\* C28: detect_with_scores and detect use the same detector: when the
\* method is an AI technique, the mask detect returns for the frame is, row
\* by row, whether the score detect_with_scores returned is above the
\* threshold of the technique, and one of them raises only if the other
\* does.
C28_ScoresAndMaskAgree ==
    (out.op = "detector.detect_with_scores" /\ detector.method \in AiMethods) =>
        LET mask == Detect(detector, Parts, X).out
            threshold == IF detector.method \in
                               {"fuzzy", "ensemble", "neural_symbolic"}
                         THEN SCALE \div 2 ELSE (3 * SCALE) \div 10
        IN  /\ mask.ok = out.ok
            /\ out.ok =>
                  \A r \in 1..Len(X.rows) :
                      mask.scores[r] = FGt(out.scores[r], threshold)

\* C29: a run of run_etl_test that returns success = true has recorded no
\* alert of severity critical in the alerts of any stage, whether the alert
\* comes from the validation or from a hook that raised.
C29_SuccessMeansNoCriticalAlert ==
    (out.op = "orchestrator.run_etl_test" /\ out.ok /\ out.scores = <<TRUE>>)
        => \A k \in 1..3 :
              ~HasCritical(orchestrator.stage_results[StageOrder[k]].alerts)

\* C30: with halt_on_critical a critical alert of the validation of a stage
\* leaves run_etl_test as an exception and no later stage function is
\* called; without it the three stage functions are called in order and a
\* stage whose validation found a critical alert is recorded as not passed.
C30_CriticalValidationHaltsTheRun ==
    LET ValidationTypes == {"data_quality", "anomaly_detection",
                            "load_failure", "validation_error"}
        CriticalValidation(stage) ==
            LET alerts == orchestrator.stage_results[stage].alerts
            IN  \E k \in 1..Len(alerts) :
                   /\ alerts[k].severity = "critical"
                   /\ alerts[k].type \in ValidationTypes
    IN  out.op = "orchestrator.run_etl_test" =>
            /\ orchestrator.halt_on_critical =>
                  /\ out.ok => \A k \in 1..3 : ~CriticalValidation(StageOrder[k])
                  /\ ~out.ok =>
                        /\ orchestrator.called # <<>>
                        /\ orchestrator.called =
                              SubSeq(StageOrder, 1, Len(orchestrator.called))
            /\ ~orchestrator.halt_on_critical =>
                  /\ orchestrator.called = StageOrder
                  /\ \A k \in 1..3 :
                        CriticalValidation(StageOrder[k]) =>
                            ~orchestrator.stage_results[StageOrder[k]].passed

====
